---- MODULE Spec2Model ----
(***************************************************************************)
(* Demucs U-Net waveform denoiser (src/models/denoiser/demucs/demucs.py).  *)
(*                                                                         *)
(* The model follows the time axis of the tensors through the constructor, *)
(* valid_length and forward.  A tensor is represented by the sequence of   *)
(* its time steps; the value kept for a time step is the latest input      *)
(* sample (1-based, 0 for none) that the step is computed from, so that    *)
(* Len(x) is x.shape[-1] and x[t] is the data dependency of step t.        *)
(***************************************************************************)
EXTENDS Integers, Sequences, FiniteSets, TLC

VARIABLES
    self,       \* the attributes set by Demucs.__init__ (and its arguments)
    pc,         \* position in __init__ / forward / valid_length
    error,      \* the exception that ended the call, "" for none
    encoder,    \* self.encoder: the encoder blocks, in list order
    decoder,    \* self.decoder: the decoder blocks, in list order
    rnn,        \* self.rnn (a record) once built, <<>> before
    length,     \* forward's local `length` (x.shape[-1] before padding)
    x,          \* forward's local x, as the sequence of its time steps
    skips,      \* forward's local list `skips`
    hist,       \* what the current forward call has done so far
    calls       \* the last two valid_length calls: <<[arg, ret], ...>>

vars == <<self, pc, error, encoder, decoder, rnn, length, x, skips, hist, calls>>

----------------------------------------------------------------------------
(* Bounds of the model. *)

MaxDepth == 2
MaxLength == 6
MaxKernelConv == 3
MaxStrideConv == 2
MaxKernelGlu == 3
MaxStrideGlu == 2
MaxHiddenDim == 2
MaxResampleArg == 5

Depths == 1..MaxDepth
Lengths == 1..MaxLength
KernelConvs == 1..MaxKernelConv
StrideConvs == 1..MaxStrideConv
KernelGlus == 1..MaxKernelGlu
StrideGlus == 1..MaxStrideGlu
Growths == {1, 2}

----------------------------------------------------------------------------
(* Arithmetic of the source language. *)

Max(a, b) == IF a >= b THEN a ELSE b

Min(a, b) == IF a <= b THEN a ELSE b

\* math.ceil(a / b) for an integer a and a positive integer b
Ceil(a, b) == -((-a) \div b)

\* int(a / b) for a positive power of two b: truncation towards zero
IntTrunc(a, b) == IF a >= 0 THEN a \div b ELSE -((-a) \div b)

RECURSIVE Pow2(_)
Pow2(n) == IF n <= 0 THEN 1 ELSE 2 * Pow2(n - 1)

\* the largest element of a finite set of naturals, 0 for the empty set
SetMax(S) == IF S = {} THEN 0 ELSE CHOOSE m \in S : \A n \in S : n <= m

----------------------------------------------------------------------------
(* Demucs.valid_length *)

\* an off-by-operator variant of the encoder line: % in place of /
valid_length_conv_mod(len, kernel, stride) ==
    Max(((len - kernel) % stride) + 1, 1)

\* length = math.ceil((length - kernel) / stride) + 1; length = max(length, 1)
valid_length_conv(len, kernel, stride) ==
    Max(Ceil(len - kernel, stride) + 1, 1)

RECURSIVE valid_length_encoder(_, _, _)
valid_length_encoder(s, len, idx) ==
    IF idx = 0 THEN len
    ELSE valid_length_encoder(s,
             valid_length_conv(
                 valid_length_conv(len, s.kernel_conv, s.stride_conv),
                 s.kernel_glu, s.stride_glu),
             idx - 1)

RECURSIVE valid_length_decoder(_, _, _)
valid_length_decoder(s, len, idx) ==
    IF idx = 0 THEN len
    ELSE valid_length_decoder(s, (len - 1) * s.stride_conv + s.kernel_conv, idx - 1)

valid_length(s, len) ==
    Ceil(valid_length_decoder(s,
             valid_length_encoder(s, Ceil(len * s.resample, 1), s.depth),
             s.depth),
         s.resample)

----------------------------------------------------------------------------
(* Tensor primitives along the time axis.  Each returns the output tensor, *)
(* or ShapeError where the primitive raises on the given shape.  An        *)
(* output step holds the latest input sample among the steps it reads.     *)

\* no time step has a negative dependency, so this is no tensor
ShapeError == <<-1>>

IsError(t) == t = ShapeError

\* the input steps read by output step j of a convolution
ConvWindow(n, j, kernel, stride, padding) ==
    { i \in 1..n : /\ i >= (j - 1) * stride + 1 - padding
                   /\ i <= (j - 1) * stride + kernel - padding }

\* nn.Conv1d(kernel, stride=stride, padding=padding) applied to t
Conv1d(t, kernel, stride, padding) ==
    LET n == Len(t)
    IN  IF n + 2 * padding < kernel THEN ShapeError
        ELSE [j \in 1..((n + 2 * padding - kernel) \div stride + 1) |->
                 SetMax({ t[i] : i \in ConvWindow(n, j, kernel, stride, padding) })]

\* nn.ConvTranspose1d(kernel, stride=stride) applied to t
ConvTranspose1d(t, kernel, stride) ==
    LET n == Len(t)
    IN  [u \in 1..((n - 1) * stride + kernel) |->
             SetMax({ t[j] : j \in { i \in 1..n : /\ (i - 1) * stride + 1 <= u
                                                  /\ u <= (i - 1) * stride + kernel } })]

\* F.pad(t, (0, amount)): zeros appended, or the end cropped for amount < 0
Pad(t, amount) ==
    IF amount >= 0 THEN t \o [i \in 1..amount |-> 0]
    ELSE IF Len(t) + amount < 0 THEN ShapeError
    ELSE SubSeq(t, 1, Len(t) + amount)

\* t[..., :n]
Slice(t, n) == SubSeq(t, 1, Min(n, Len(t)))

\* a + b with broadcasting of a time axis of size 1
Add(a, b) ==
    IF Len(a) = Len(b) THEN [i \in 1..Len(a) |-> Max(a[i], b[i])]
    ELSE IF Len(b) = 1 THEN [i \in 1..Len(a) |-> Max(a[i], b[1])]
    ELSE IF Len(a) = 1 THEN [i \in 1..Len(b) |-> Max(a[1], b[i])]
    ELSE ShapeError

\* the latest input sample any step of t is computed from
Latest(t) == SetMax({ t[i] : i \in 1..Len(t) })

\* resample.upsample2: twice the length, band-limited interpolation
upsample2(t) == [i \in 1..(2 * Len(t)) |-> Latest(t)]

\* resample.downsample2: half the length (an odd length is padded by one)
downsample2(t) == [i \in 1..((Len(t) + 1) \div 2) |-> Latest(t)]

----------------------------------------------------------------------------
(* Demucs.__init__ *)

\* assert resample in [1, 2, 4] (a variant that accepts the whole range)
ResampleRange(resample) == resample \in 1..4

\* assert resample in [1, 2, 4]
ResampleSupported(resample) == resample \in {1, 2, 4}

\* int(hidden_dim * growth * 2 ** e), e possibly negative
Channels(hidden_dim, growth, e) ==
    IF e >= 0 THEN hidden_dim * growth * Pow2(e)
    ELSE IntTrunc(hidden_dim * growth, Pow2(-e))

\* whether building a torch module with the given sizes raises.  torch
\* rejects a negative size on every release and a zero size on some; the
\* model takes the strictest release, so that a constructor call that ends
\* here with a model does so on every release
ModuleRaises(sizes) == \E n \in sizes : n <= 0

_build_encoder_block(level, hidden_dim, growth, use_relu) ==
    [level        |-> level,
     in_channels  |-> IF level = 0 THEN 1 ELSE Channels(hidden_dim, growth, level - 1),
     out_channels |-> Channels(hidden_dim, growth, level),
     use_relu     |-> use_relu]

_build_decoder_block(level, hidden_dim, growth, use_relu) ==
    [level        |-> level,
     in_channels  |-> Channels(hidden_dim, growth, level),
     out_channels |-> IF level = 0 THEN 1 ELSE Channels(hidden_dim, growth, level - 1),
     use_relu     |-> use_relu]

\* bidirectional=causal, the flag not negated
BidirectionalSame(causal) == causal

\* bidirectional=not causal
Bidirectional(causal) == ~causal

\* the recurrent bottleneck and its projection
BuildRnn(s) ==
    LET encoder_channels == Channels(s.hidden_dim, s.growth, s.depth - 1)
    IN  [input_size    |-> encoder_channels,
         hidden_size   |-> encoder_channels,
         bidirectional |-> Bidirectional(s.causal),
         linear        |-> IF ~s.causal THEN "Linear" ELSE "Identity"]

\* lines 53-65: the attributes are stored, then the resampling factor is checked
CheckResample ==
    /\ pc = "new"
    /\ IF ResampleSupported(self.resample)
       THEN pc' = "build" /\ error' = error
       ELSE pc' = "failed" /\ error' = "AssertionError"
    /\ UNCHANGED <<self, encoder, decoder, rnn, length, x, skips, hist, calls>>

\* one iteration of the loop of lines 71-97
BuildBlocks ==
    /\ pc = "build"
    /\ Len(encoder) < self.depth
    /\ LET i   == Len(encoder)
           enc == _build_encoder_block(i, self.hidden_dim, self.growth,
                                       self.original \/ i # 0)
           dec == _build_decoder_block(self.depth - i - 1, self.hidden_dim,
                                       self.growth, self.depth - i - 1 > 0)
       IN  IF ModuleRaises({enc.in_channels, enc.out_channels,
                             dec.in_channels, dec.out_channels})
           THEN /\ pc' = "failed"
                /\ error' = "RuntimeError"
                /\ UNCHANGED <<encoder, decoder>>
           ELSE /\ encoder' = Append(encoder, enc)
                /\ decoder' = Append(decoder, dec)
                /\ UNCHANGED <<pc, error>>
    /\ UNCHANGED <<self, rnn, length, x, skips, hist, calls>>

\* lines 99-124: the module lists, the weight rescaling, the LSTM, the projection
BuildBottleneck ==
    /\ pc = "build"
    /\ Len(encoder) >= self.depth
    /\ LET r == BuildRnn(self)
       IN  IF ModuleRaises({r.hidden_size})
           THEN pc' = "failed" /\ rnn' = rnn /\ error' = "ValueError"
           ELSE pc' = "ready" /\ rnn' = r /\ error' = error
    /\ UNCHANGED <<self, encoder, decoder, length, x, skips, hist, calls>>

\* the blocks a finished constructor leaves in self.encoder / self.decoder
BuiltEncoder(s) ==
    [i \in 1..s.depth |->
        _build_encoder_block(i - 1, s.hidden_dim, s.growth, s.original \/ i # 1)]

BuiltDecoder(s) ==
    [i \in 1..s.depth |->
        _build_decoder_block(s.depth - i, s.hidden_dim, s.growth, s.depth - i > 0)]

NoHist ==
    [pushes |-> 0, pops |-> 0, popped |-> <<>>, bottleneck |-> FALSE,
     leftover |-> FALSE, padded |-> 0, channels |-> 0, rnn_dep |-> <<>>,
     idx |-> 0]

----------------------------------------------------------------------------
(* Demucs.forward *)

\* nn.Sequential(conv, relu, conv_glu, glu); ReLU and GLU keep the time axis
EncoderBlock(s, t) ==
    LET c == Conv1d(t, s.kernel_conv, s.stride_conv, 0)
    IN  IF IsError(c) THEN ShapeError
        ELSE Conv1d(c, s.kernel_glu, s.stride_glu, s.kernel_glu \div 2)

\* nn.Sequential(deconv_glu, glu, deconv, relu)
DecoderBlock(s, t) ==
    LET g == Conv1d(t, s.kernel_glu, s.stride_glu, s.kernel_glu \div 2)
    IN  IF IsError(g) THEN ShapeError
        ELSE ConvTranspose1d(g, s.kernel_conv, s.stride_conv)

\* whether one of the two convolutions of an encoder block drops time steps
Leftover(s, t) ==
    LET c == Conv1d(t, s.kernel_conv, s.stride_conv, 0)
    IN  \/ (Len(t) - s.kernel_conv) % s.stride_conv # 0
        \/ /\ ~IsError(c)
           /\ (Len(c) + 2 * (s.kernel_glu \div 2) - s.kernel_glu) % s.stride_glu # 0

\* the steps of the LSTM input that output step t of the LSTM reads
RnnDep(n, bidirectional) == [t \in 1..n |-> IF bidirectional THEN n ELSE t]

\* Demucs.bottleneck: permute, LSTM, linear, permute back
bottleneck(r, t) ==
    LET d == RnnDep(Len(t), r.bidirectional)
    IN  [i \in 1..Len(t) |-> SetMax({ t[j] : j \in 1..d[i] })]

\* skips.pop(0), the wrong end of the list
PopFirst(list) == [skip |-> Head(list), rest |-> Tail(list)]

\* skips.pop(-1)
Pop(list) == [skip |-> list[Len(list)], rest |-> SubSeq(list, 1, Len(list) - 1)]

\* lines 294-307: the call starts on an input of `len` samples; the mean over
\* the channels keeps each time step, the division by the standard deviation
\* of the whole signal makes every step depend on every sample
Forward(len) ==
    /\ pc = "ready"
    /\ x' = [t \in 1..len |-> IF self.normalize THEN len ELSE t]
    /\ hist' = [NoHist EXCEPT !.channels = 1]
    /\ length' = 0
    /\ skips' = <<>>
    /\ pc' = "pad"
    /\ UNCHANGED <<self, error, encoder, decoder, rnn, calls>>

\* lines 310-311
ZeroPad ==
    /\ pc = "pad"
    /\ length' = Len(x)
    /\ LET padded == Pad(x, valid_length(self, Len(x)) - Len(x))
       IN  IF IsError(padded)
           THEN pc' = "raised" /\ error' = "RuntimeError" /\ UNCHANGED <<x, hist>>
           ELSE /\ x' = padded
                /\ hist' = [hist EXCEPT !.padded = Len(padded)]
                /\ pc' = "upsample"
                /\ error' = error
    /\ UNCHANGED <<self, encoder, decoder, rnn, skips, calls>>

\* lines 314-321
Upsample ==
    /\ pc = "upsample"
    /\ x' = IF self.resample = 2 THEN upsample2(x)
            ELSE IF self.resample = 4 THEN upsample2(upsample2(x))
            ELSE x
    /\ skips' = <<>>
    /\ pc' = "encode"
    /\ UNCHANGED <<self, error, encoder, decoder, rnn, length, hist, calls>>

\* one iteration of the loop of lines 322-324
Encode ==
    /\ pc = "encode"
    /\ hist.idx < Len(encoder)
    /\ LET encode == encoder[hist.idx + 1]
           y      == EncoderBlock(self, x)
       IN  IF encode.in_channels # hist.channels \/ IsError(y)
           THEN pc' = "raised" /\ error' = "RuntimeError" /\ UNCHANGED <<x, skips, hist>>
           ELSE /\ x' = y
                /\ skips' = Append(skips, [level |-> encode.level, x |-> y])
                /\ hist' = [hist EXCEPT !.idx = @ + 1,
                                        !.pushes = @ + 1,
                                        !.channels = encode.out_channels,
                                        !.leftover = @ \/ Leftover(self, x)]
                /\ UNCHANGED <<pc, error>>
    /\ UNCHANGED <<self, encoder, decoder, rnn, length, calls>>

\* line 327
Bottleneck ==
    /\ pc = "encode"
    /\ hist.idx >= Len(encoder)
    /\ IF rnn.input_size # hist.channels
       THEN pc' = "raised" /\ error' = "RuntimeError" /\ UNCHANGED <<x, hist>>
       ELSE /\ x' = bottleneck(rnn, x)
            /\ hist' = [hist EXCEPT !.bottleneck = TRUE, !.idx = 0,
                                    !.rnn_dep = RnnDep(Len(x), rnn.bidirectional)]
            /\ pc' = "decode"
            /\ error' = error
    /\ UNCHANGED <<self, encoder, decoder, rnn, length, skips, calls>>

\* one iteration of the loop of lines 330-333
Decode ==
    /\ pc = "decode"
    /\ hist.idx < Len(decoder)
    /\ IF skips = <<>>
       THEN pc' = "raised" /\ error' = "IndexError" /\ UNCHANGED <<x, skips, hist>>
       ELSE LET decode == decoder[hist.idx + 1]
                popped == Pop(skips)
                skip   == popped.skip
                sum    == Add(x, Slice(skip.x, Len(x)))
                y      == IF IsError(sum) THEN ShapeError ELSE DecoderBlock(self, sum)
                h      == [hist EXCEPT
                              !.pops = @ + 1,
                              !.popped = Append(@, [step       |-> hist.idx,
                                                    level      |-> skip.level,
                                                    decoder    |-> decode.level,
                                                    x_length   |-> Len(x),
                                                    skip_length |-> Len(skip.x)])]
            IN  /\ skips' = popped.rest
                /\ IF decode.in_channels # hist.channels \/ IsError(y)
                   THEN pc' = "raised" /\ error' = "RuntimeError" /\ x' = x /\ hist' = h
                   ELSE /\ x' = y
                        /\ hist' = [h EXCEPT !.idx = @ + 1,
                                             !.channels = decode.out_channels]
                        /\ UNCHANGED <<pc, error>>
    /\ UNCHANGED <<self, encoder, decoder, rnn, length, calls>>

\* lines 336-340
Downsample ==
    /\ pc = "decode"
    /\ hist.idx >= Len(decoder)
    /\ x' = IF self.resample = 2 THEN downsample2(x)
            ELSE IF self.resample = 4 THEN downsample2(downsample2(x))
            ELSE x
    /\ pc' = "trim"
    /\ UNCHANGED <<self, error, encoder, decoder, rnn, length, skips, hist, calls>>

\* lines 343-346: the trim, and the product with the standard deviation of
\* the whole input when the input was normalized
Return ==
    /\ pc = "trim"
    /\ x' = [t \in 1..Min(length, Len(x)) |-> IF self.normalize THEN length ELSE x[t]]
    /\ pc' = "returned"
    /\ UNCHANGED <<self, error, encoder, decoder, rnn, length, skips, hist, calls>>

----------------------------------------------------------------------------
(* Calls of valid_length on a constructed model. *)

LastTwo(list) == IF Len(list) <= 2 THEN list ELSE Tail(list)

\* valid_length(len): reads self, returns an integer, assigns nothing
ValidLength(len) ==
    /\ pc = "ready"
    /\ calls' = LastTwo(Append(calls, [arg |-> len, ret |-> valid_length(self, len)]))
    /\ UNCHANGED <<self, pc, error, encoder, decoder, rnn, length, x, skips, hist>>

\* valid_length applied to the length the previous call returned
ValidLengthAgain ==
    /\ calls # <<>>
    /\ calls[Len(calls)].arg \in Lengths
    /\ calls[Len(calls)].ret >= 1
    /\ ValidLength(calls[Len(calls)].ret)

----------------------------------------------------------------------------
(* Specifications. *)

\* the arguments of the constructor that the time axis depends on
Models(causals, normalizes) ==
    [hidden_dim : {MaxHiddenDim}, growth : {1}, depth : Depths,
     causal : causals, resample : {1, 2, 4},
     stride_conv : StrideConvs, kernel_conv : KernelConvs,
     stride_glu : StrideGlus, kernel_glu : KernelGlus,
     original : {TRUE}, normalize : normalizes]

\* the arguments a caller may hand to the constructor, the kernels and
\* strides at their defaults (lines 23-26)
Arguments ==
    [hidden_dim : -1..MaxHiddenDim, growth : Growths, depth : -1..MaxDepth,
     causal : BOOLEAN, resample : 0..MaxResampleArg,
     stride_conv : {4}, kernel_conv : {8}, stride_glu : {1}, kernel_glu : {1},
     original : BOOLEAN, normalize : {TRUE}]

Idle ==
    /\ error = ""
    /\ length = 0
    /\ x = <<>>
    /\ skips = <<>>
    /\ hist = NoHist
    /\ calls = <<>>

\* a model as __init__ leaves it
Constructed(models) ==
    /\ self \in models
    /\ pc = "ready"
    /\ encoder = BuiltEncoder(self)
    /\ decoder = BuiltDecoder(self)
    /\ rnn = BuildRnn(self)
    /\ Idle

\* forward on a constructed model
Init == Constructed(Models(BOOLEAN, BOOLEAN))

Next ==
    \/ \E len \in Lengths : Forward(len)
    \/ ZeroPad
    \/ Upsample
    \/ Encode
    \/ Bottleneck
    \/ Decode
    \/ Downsample
    \/ Return

Spec == Init /\ [][Next]_vars

\* the constructor
InitNew ==
    /\ self \in Arguments
    /\ pc = "new"
    /\ encoder = <<>>
    /\ decoder = <<>>
    /\ rnn = <<>>
    /\ Idle

NextNew ==
    \/ CheckResample
    \/ BuildBlocks
    \/ BuildBottleneck

SpecNew == InitNew /\ [][NextNew]_vars

\* valid_length on a constructed model
InitValidLength == Constructed(Models({TRUE}, {TRUE}))

NextValidLength ==
    \/ \E len \in Lengths : ValidLength(len)
    \/ ValidLengthAgain

SpecValidLength == InitValidLength /\ [][NextValidLength]_vars

----------------------------------------------------------------------------
(* Claims about forward (specification Spec). *)

\* C1: a forward call on an input of L samples raises no shape failure and
\* returns a signal of exactly L samples.
C1_LengthInvariance ==
    /\ pc # "raised"
    /\ pc = "returned" => Len(x) = length

\* C2: the chain run on a signal of valid_length(L) samples gives, before the
\* final trim, a signal of valid_length(L) samples, and no encoder
\* convolution on the way leaves time steps over.
C2_ValidLengthIsFixedPoint ==
    /\ pc # "raised"
    /\ pc = "trim" => (Len(x) = hist.padded /\ ~hist.leftover)

\* C5: the skip stack starts empty, takes depth pushes, all before the
\* bottleneck, and depth pops, all after it, is never popped while empty,
\* is empty when the call returns, and decoder step j takes the skip of
\* encoder level depth-1-j.
C5_SkipStackBalance ==
    /\ hist.pushes <= self.depth
    /\ hist.pops <= hist.pushes
    /\ Len(skips) = hist.pushes - hist.pops
    /\ pc \in {"ready", "pad", "upsample"} => hist.pushes = 0
    /\ ~hist.bottleneck => hist.pops = 0
    /\ hist.bottleneck => hist.pushes = self.depth
    /\ error # "IndexError"
    /\ pc \in {"trim", "returned"} =>
           /\ hist.pushes = self.depth
           /\ hist.pops = self.depth
           /\ skips = <<>>
    /\ Len(hist.popped) = hist.pops
    /\ \A j \in 1..Len(hist.popped) :
           /\ hist.popped[j].step = j - 1
           /\ hist.popped[j].level = self.depth - 1 - (j - 1)
           /\ hist.popped[j].decoder = hist.popped[j].level

C5_Witness ==
    /\ pc = "returned"
    /\ self.depth = MaxDepth
    /\ hist.pops = MaxDepth
    /\ skips = <<>>

\* C6 as stated: with causal=true no output sample depends on an input
\* sample of a later time.
C6_NoFutureDependency ==
    (pc = "returned" /\ self.causal) =>
        \A u \in 1..Len(x) : x[u] <= u

\* the samples a forward-only pyramid looks ahead: kernel_conv - 1 steps per
\* encoder convolution, and the steps past the centre of each padded
\* convolution of the encoder and of the decoder, at the rate of their level
RECURSIVE GeometricSum(_, _)
GeometricSum(stride, n) ==
    IF n = 0 THEN 0 ELSE 1 + stride * GeometricSum(stride, n - 1)

C6_Lookahead(s) ==
    LET g == s.kernel_glu - 1 - (s.kernel_glu \div 2)
    IN  (s.kernel_conv - 1 + 2 * g * s.stride_conv)
            * GeometricSum(s.stride_conv, s.depth)

\* C6 as amended: with causal=true the recurrent bottleneck reads no later
\* step (its output at step t depends on its input at steps <= t only), and
\* with normalize=false, resample=1 and stride_glu=1 besides, output sample
\* u depends on no input sample later than u + C6_Lookahead.
C6_BoundedLookahead ==
    /\ (hist.bottleneck /\ self.causal) =>
           \A t \in 1..Len(hist.rnn_dep) : hist.rnn_dep[t] <= t
    /\ (/\ pc = "returned"
        /\ self.causal
        /\ ~self.normalize
        /\ self.resample = 1
        /\ self.stride_glu = 1) =>
           \A u \in 1..Len(x) : x[u] <= u + C6_Lookahead(self)

\* the bound is reached, short of the end of the input, in a call that
\* returns as many samples as it was given
C6_Witness ==
    /\ pc = "returned"
    /\ self.causal
    /\ ~self.normalize
    /\ self.resample = 1
    /\ self.stride_glu = 1
    /\ self.kernel_glu = 1
    /\ self.depth >= 2
    /\ Len(x) = length
    /\ \A t \in 1..Len(hist.rnn_dep) : hist.rnn_dep[t] = t
    /\ \E u \in 1..Len(x) :
           /\ x[u] = u + C6_Lookahead(self)
           /\ x[u] > u
           /\ x[u] < length

\* C9: at every decoder step the decoder input is no longer than the skip
\* popped for it.
C9_SkipCoversDecoderInput ==
    \A j \in 1..Len(hist.popped) :
        hist.popped[j].x_length <= hist.popped[j].skip_length

----------------------------------------------------------------------------
(* Claims about valid_length (specification SpecValidLength). *)

\* C3: valid_length(L) >= L, and no length from L up to valid_length(L) - 1
\* is a fixed point of valid_length.
C3_SmallestValidLength ==
    \A i \in 1..Len(calls) :
        /\ calls[i].ret >= calls[i].arg
        /\ \A m \in calls[i].arg..(calls[i].ret - 1) : valid_length(self, m) # m

\* C4: valid_length(valid_length(L)) = valid_length(L).
C4_Idempotent ==
    (Len(calls) = 2 /\ calls[2].arg = calls[1].ret) =>
        calls[2].ret = calls[1].ret

\* C10: valid_length is monotonic non-decreasing in the length, returns the
\* same value for the same length, and leaves the model as it was.
C10_Monotonic ==
    /\ [](Len(calls) = 2 =>
            /\ calls[1].arg <= calls[2].arg => calls[1].ret <= calls[2].ret
            /\ calls[1].arg = calls[2].arg => calls[1].ret = calls[2].ret)
    /\ [][<<self, encoder, decoder, rnn>>' = <<self, encoder, decoder, rnn>>]_vars

C10_Witness ==
    /\ Len(calls) = 2
    /\ calls[1].arg < calls[2].arg
    /\ calls[1].ret < calls[2].ret

----------------------------------------------------------------------------
(* Claims about the constructor (specification SpecNew). *)

\* C7: a resample outside {1, 2, 4} fails the constructor before any block
\* or the bottleneck is built; a resample in {1, 2, 4} never fails that check.
C7_ResampleChecked ==
    /\ self.resample \notin {1, 2, 4} =>
           /\ pc \in {"new", "failed"}
           /\ pc = "failed" => error = "AssertionError"
           /\ encoder = <<>> /\ decoder = <<>> /\ rnn = <<>>
    /\ self.resample \in {1, 2, 4} => error # "AssertionError"

C7_Witness ==
    /\ pc = "failed"
    /\ error = "AssertionError"
    /\ self.resample = 3

\* C8: no model is produced for a non-positive depth, a non-positive
\* hidden_dim or a non-positive channel count.
C8_NonPositiveRejected ==
    pc = "ready" =>
        /\ self.depth > 0
        /\ self.hidden_dim > 0
        /\ rnn.hidden_size > 0
        /\ \A i \in 1..Len(encoder) :
               encoder[i].out_channels > 0 /\ decoder[i].in_channels > 0

====
